---- MODULE Spec2Model ----
\* A model of imghdr.what (src/imghdr.py): the image-format sniffer that
\* prefers Pillow when it could be imported and falls back to fixed byte
\* signatures.  Bytes are integers 0..255, byte strings are sequences.
EXTENDS Integers, Sequences, FiniteSets, TLC

VARIABLES Image, BytesIO, pc, file, h, data, result, handles, exc, trace, pil

vars == <<Image, BytesIO, pc, file, h, data, result, handles, exc, trace, pil>>

-----------------------------------------------------------------------------
\* Bounds of the model.

\* Number of concurrent calls of what in SpecConc.
NumCalls == 2
\* Longest freely chosen prefix of a byte buffer.
MaxHead == 2

\* f.read(32) and bytes(file)[:32].
READ_LEN == 32

Calls == 1..NumCalls

-----------------------------------------------------------------------------
\* Byte strings.

Min(a, b) == IF a < b THEN a ELSE b

\* s[:n]
Take(s, n) == SubSeq(s, 1, Min(n, Len(s)))

\* s.startswith(p)
StartsWith(s, p) == Len(s) >= Len(p) /\ SubSeq(s, 1, Len(p)) = p

\* p in s (p occurs somewhere in s)
Contains(s, p) == \E i \in 0..Len(s) : StartsWith(SubSeq(s, i + 1, Len(s)), p)

Zeros(n) == [i \in 1..n |-> 0]

\* Optional bytes: Python's None or a bytes object.
NoneBytes == [some |-> FALSE, val |-> <<>>]
Some(b) == [some |-> TRUE, val |-> b]

\* The function's return value when it returns None.
None == "None"

-----------------------------------------------------------------------------
\* The signatures of lines 65-75.

JPEG_SIG == <<255, 216>>
PNG_SIG == <<137, 80, 78, 71, 13, 10, 26, 10>>
GIF87a == <<71, 73, 70, 56, 55, 97>>
GIF89a == <<71, 73, 70, 56, 57, 97>>
BM == <<66, 77>>
II == <<73, 73>>
MM == <<77, 77>>

IsJpeg(d) == StartsWith(d, JPEG_SIG)
IsPng(d) == StartsWith(d, PNG_SIG)
GifOnly89a(d) == Take(d, 6) = GIF89a
IsGif(d) == Take(d, 6) \in {GIF87a, GIF89a}
BmpContains(d) == Contains(d, BM)
IsBmp(d) == StartsWith(d, BM)
TiffOnlyII(d) == StartsWith(d, II)
IsTiff(d) == StartsWith(d, II) \/ StartsWith(d, MM)

\* The rules in the order of the source, by number.
RuleMatches(i, d) ==
    CASE i = 1 -> IsJpeg(d)
      [] i = 2 -> IsPng(d)
      [] i = 3 -> IsGif(d)
      [] i = 4 -> IsBmp(d)
      [] i = 5 -> IsTiff(d)

RuleLabel(i) ==
    CASE i = 1 -> "jpeg"
      [] i = 2 -> "png"
      [] i = 3 -> "gif"
      [] i = 4 -> "bmp"
      [] i = 5 -> "tiff"

\* The chain of ifs checked in the order `order`: the first rule that matches.
RECURSIVE FirstMatch(_, _)
FirstMatch(order, d) ==
    IF order = <<>> THEN None
    ELSE IF RuleMatches(Head(order), d) THEN RuleLabel(Head(order))
    ELSE FirstMatch(Tail(order), d)

SourceOrder == <<1, 2, 3, 4, 5>>

\* Lines 62-77: the empty test, then the rules in source order.
SigMatch(d) == IF d = <<>> THEN None ELSE FirstMatch(SourceOrder, d)

-----------------------------------------------------------------------------
\* The optional decoder (Pillow).  It is not part of this repository: what it
\* answers for a byte string is an arbitrary but fixed outcome, discovered the
\* first time the string is decoded and remembered in pil, so that decoding the
\* same bytes twice gives the same answer.
\*   "raise"  Image.open raises (an Exception)
\*   "nofmt"  the image opens and img.format is None or empty
\*   F        the image opens and img.format is the identifier F

Formats == {"PNG", "WEBP"}
DecOutcomes == {"raise", "nofmt"} \cup Formats

\* fmt.lower()
LowerMissing(f) == f
Lower(f) ==
    CASE f = "PNG" -> "png"
      [] f = "WEBP" -> "webp"
      [] f = "JPEG" -> "jpeg"
      [] f = "GIF" -> "gif"
      [] f = "BMP" -> "bmp"
      [] f = "TIFF" -> "tiff"

Decoded(d) == {r \in pil : r.arg = d}
MayAnswer(d, out) == \A r \in Decoded(d) : r.out = out

-----------------------------------------------------------------------------
\* The environment: the files that exist.

Long(sig, last) == sig \o Zeros(READ_LEN - Len(sig)) \o <<last>>

NoFile == [exists |-> FALSE, readable |-> FALSE, content |-> <<>>]
FS(path) ==
    CASE path = "img.png" -> [exists |-> TRUE, readable |-> TRUE, content |-> Long(PNG_SIG, 1)]
      [] path = "img2.png" -> [exists |-> TRUE, readable |-> TRUE, content |-> Long(PNG_SIG, 2)]
      [] path = "None" -> [exists |-> TRUE, readable |-> TRUE, content |-> JPEG_SIG]
      [] path = "empty" -> [exists |-> TRUE, readable |-> TRUE, content |-> <<>>]
      [] path = "bad" -> [exists |-> TRUE, readable |-> FALSE, content |-> <<>>]
      [] OTHER -> NoFile

\* The file argument: a path, a bytes object or None.
PathArg(p) == [kind |-> "path", path |-> p, bytes |-> <<>>]
BytesArg(b) == [kind |-> "bytes", path |-> "", bytes |-> b]
NoneArg == [kind |-> "none", path |-> "", bytes |-> <<>>]

\* str(file)
StrOf(f) == IF f.kind = "none" THEN "None" ELSE f.path

\* isinstance(file, (bytes, bytearray))
IsBytesLike(f) == f.kind = "bytes"

-----------------------------------------------------------------------------
\* Exceptions: where control goes when the statement at `line` raises.

HandlerNoIOCatch(line) ==
    IF line \in 52..56 THEN "L62" ELSE "raised"
HandlerIOPass(line) ==
    IF line \in 40..46 THEN "L51"
    ELSE IF line \in 52..56 THEN "L62"
    ELSE "raised"
Handler(line) ==
    IF line \in 40..46 THEN "ret_none"
    ELSE IF line \in 52..56 THEN "L62"
    ELSE "raised"

\* Leaving the call: a return of v, or the exception going to the caller.
Leave(c, where, v) ==
    /\ pc' = [pc EXCEPT ![c] = IF where = "raised" THEN "raised" ELSE "done"]
    /\ result' = [result EXCEPT ![c] = v]

Goto(c, where) ==
    IF where \in {"ret_none", "raised"}
    THEN Leave(c, where, None)
    ELSE pc' = [pc EXCEPT ![c] = where] /\ UNCHANGED result

Log(c, e) == trace' = [trace EXCEPT ![c] = Append(@, e)]

-----------------------------------------------------------------------------
\* The steps of one call what(file, h).

\* Lines 26-36: the call binds its arguments and data = h.
Call(c, args) ==
    /\ pc[c] = "idle"
    /\ \E a \in args :
        /\ file' = [file EXCEPT ![c] = a.file]
        /\ h' = [h EXCEPT ![c] = a.h]
        /\ data' = [data EXCEPT ![c] = a.h]
    /\ pc' = [pc EXCEPT ![c] = "L39"]
    /\ UNCHANGED <<Image, BytesIO, result, handles, exc, trace, pil>>

\* Line 39: `if data is None`
NeedsReadAlways(c) == TRUE
NeedsRead(c) == ~data[c].some

\* Lines 43 and 46: the assignment to the local data.
SetDataShared(c, v) == [d \in Calls |-> v]
SetData(c, v) == [data EXCEPT ![c] = v]

\* Line 39, data is not None: the header is used as it is.
HeaderGiven(c) ==
    /\ pc[c] = "L39"
    /\ ~NeedsRead(c)
    /\ pc' = [pc EXCEPT ![c] = "L51"]
    /\ UNCHANGED <<Image, BytesIO, file, h, data, result, handles, exc, trace, pil>>

\* Lines 42-43: data = bytes(file)[:32]
SliceNoLimit(b) == b
Slice(b) == Take(b, READ_LEN)
UseBuffer(c) ==
    /\ pc[c] = "L39"
    /\ NeedsRead(c)
    /\ IsBytesLike(file[c])
    /\ data' = SetData(c, Some(Slice(file[c].bytes)))
    /\ pc' = [pc EXCEPT ![c] = "L51"]
    /\ UNCHANGED <<Image, BytesIO, file, h, result, handles, exc, trace, pil>>

\* Line 45: open(str(file), "rb"); a failure is an exception raised at line 45.
OpenFile(c) ==
    /\ pc[c] = "L39"
    /\ NeedsRead(c)
    /\ ~IsBytesLike(file[c])
    /\ Log(c, "open")
    /\ IF FS(StrOf(file[c])).exists
       THEN /\ handles' = [handles EXCEPT ![c] = @ + 1]
            /\ pc' = [pc EXCEPT ![c] = "L46"]
            /\ UNCHANGED result
       ELSE /\ Goto(c, Handler(45))
            /\ UNCHANGED handles
    /\ UNCHANGED <<Image, BytesIO, file, h, data, exc, pil>>

\* Line 46: data = f.read(32); a failure leaves the with block by an exception.
Read(content) == Take(content, READ_LEN)
ReadFile(c) ==
    /\ pc[c] = "L46"
    /\ Log(c, "read")
    /\ IF FS(StrOf(file[c])).readable
       THEN /\ data' = SetData(c, Some(Read(FS(StrOf(file[c])).content)))
            /\ UNCHANGED exc
       ELSE /\ exc' = [exc EXCEPT ![c] = TRUE]
            /\ UNCHANGED data
    /\ pc' = [pc EXCEPT ![c] = "exit45"]
    /\ UNCHANGED <<Image, BytesIO, file, h, result, handles, pil>>

\* The end of the with block of line 45: f is closed, then the pending
\* exception of line 46, if any, goes on to its handler.
ReleaseOnSuccessOnly(c) == IF exc[c] THEN handles[c] ELSE handles[c] - 1
Release(c) == handles[c] - 1
CloseFile(c) ==
    /\ pc[c] = "exit45"
    /\ Log(c, "close")
    /\ handles' = [handles EXCEPT ![c] = Release(c)]
    /\ exc' = [exc EXCEPT ![c] = FALSE]
    /\ IF exc[c] THEN Goto(c, Handler(46)) ELSE Goto(c, "L51")
    /\ UNCHANGED <<Image, BytesIO, file, h, data, pil>>

\* Line 51: `if Image and BytesIO` is false.
Available == Image # "None" /\ BytesIO # "None"
DecoderUnavailable(c) ==
    /\ pc[c] = "L51"
    /\ ~Available
    /\ pc' = [pc EXCEPT ![c] = "L62"]
    /\ UNCHANGED <<Image, BytesIO, file, h, data, result, handles, exc, trace, pil>>

\* Lines 51-59: Image.open(BytesIO(data)), img.format, fmt.lower().
DecoderArg(c) == data[c].val
Decode(c) ==
    /\ pc[c] = "L51"
    /\ Available
    /\ Log(c, "decode")
    /\ \E out \in DecOutcomes :
        /\ MayAnswer(DecoderArg(c), out)
        /\ pil' = pil \cup {[arg |-> DecoderArg(c), out |-> out]}
        /\ CASE out = "raise" -> Goto(c, Handler(53))
             [] out = "nofmt" -> Goto(c, "L62")
             [] OTHER -> Leave(c, "done", Lower(out))
    /\ UNCHANGED <<Image, BytesIO, file, h, data, handles, exc>>

\* Lines 62-77: the empty test and the signature rules.
Match(c) ==
    /\ pc[c] = "L62"
    /\ Log(c, "match")
    /\ Leave(c, "done", SigMatch(data[c].val))
    /\ UNCHANGED <<Image, BytesIO, file, h, data, handles, exc, pil>>

Step(c) ==
    \/ HeaderGiven(c)
    \/ UseBuffer(c)
    \/ OpenFile(c)
    \/ ReadFile(c)
    \/ CloseFile(c)
    \/ DecoderUnavailable(c)
    \/ Decode(c)
    \/ Match(c)

-----------------------------------------------------------------------------
\* The inputs.

Alphabet == {0, 255, 216, 137, 80, 71, 73, 66, 77}

RECURSIVE SeqsUpTo(_)
SeqsUpTo(n) ==
    IF n = 0 THEN {<<>>}
    ELSE LET shorter == SeqsUpTo(n - 1)
         IN shorter \cup {Append(s, b) : s \in {t \in shorter : Len(t) = n - 1}, b \in Alphabet}

Heads == SeqsUpTo(MaxHead)

\* What follows the head: nothing, the rest of a signature (right or wrong),
\* or padding that reaches past READ_LEN.
Tails ==
    { <<>>,
      <<78, 71, 13, 10, 26, 10>>,
      <<78, 71, 13, 10, 26, 11>>,
      <<70, 56, 55, 97>>,
      <<70, 56, 57, 97>>,
      <<70, 56, 56, 97>>,
      <<66, 77>>,
      Zeros(READ_LEN - 1),
      Zeros(READ_LEN - 2) \o <<1>> }

Buffers == {hd \o tl : hd \in Heads, tl \in Tails}

Paths == {"img.png", "img2.png", "None", "empty", "bad", "missing"}

\* The calls of Spec: every buffer as file or as header.
Args ==
    {[file |-> PathArg(p), h |-> NoneBytes] : p \in Paths}
    \cup {[file |-> NoneArg, h |-> NoneBytes]}
    \cup {[file |-> BytesArg(b), h |-> NoneBytes] : b \in Buffers}
    \cup {[file |-> f, h |-> Some(b)] :
            f \in {NoneArg, PathArg("missing"), PathArg("img.png")}, b \in Buffers}

\* The calls of SpecConc.
LongBuffers == {Long(JPEG_SIG, 1), Long(JPEG_SIG, 2)}
ConcArgs ==
    {[file |-> PathArg(p), h |-> NoneBytes] : p \in {"img.png", "img2.png", "bad", "missing"}}
    \cup {[file |-> BytesArg(b), h |-> NoneBytes] : b \in LongBuffers}
    \cup {[file |-> PathArg("missing"), h |-> Some(b)] : b \in LongBuffers \cup {<<>>}}

-----------------------------------------------------------------------------
\* Lines 18-23: the import either binds both Image and BytesIO or neither.

Init ==
    /\ \/ Image = "PIL.Image" /\ BytesIO = "io.BytesIO"
       \/ Image = "None" /\ BytesIO = "None"
    /\ pc = [c \in Calls |-> "idle"]
    /\ file = [c \in Calls |-> NoneArg]
    /\ h = [c \in Calls |-> NoneBytes]
    /\ data = [c \in Calls |-> NoneBytes]
    /\ result = [c \in Calls |-> None]
    /\ handles = [c \in Calls |-> 0]
    /\ exc = [c \in Calls |-> FALSE]
    /\ trace = [c \in Calls |-> <<>>]
    /\ pil = {}

\* One call at a time, on every input.
Next ==
    \/ Call(1, Args)
    \/ Step(1)

Spec == Init /\ [][Next]_vars

\* NumCalls calls whose steps interleave.
NextConc ==
    \E c \in Calls :
        \/ Call(c, ConcArgs)
        \/ Step(c)

SpecConc == Init /\ [][NextConc]_vars

\* The signature rules alone: what(header = b) has reached line 62 with no
\* decoder, for every buffer b, and lines 62-77 run.
InitSig ==
    /\ Image = "None" /\ BytesIO = "None"
    /\ pc = [c \in Calls |-> IF c = 1 THEN "L62" ELSE "idle"]
    /\ file = [c \in Calls |-> NoneArg]
    /\ \E b \in Buffers :
          /\ h = [c \in Calls |-> IF c = 1 THEN Some(b) ELSE NoneBytes]
          /\ data = [c \in Calls |-> IF c = 1 THEN Some(b) ELSE NoneBytes]
    /\ result = [c \in Calls |-> None]
    /\ handles = [c \in Calls |-> 0]
    /\ exc = [c \in Calls |-> FALSE]
    /\ trace = [c \in Calls |-> <<>>]
    /\ pil = {}

NextSig == Match(1)

SpecSig == InitSig /\ [][NextSig]_vars

-----------------------------------------------------------------------------
\* Vocabulary of the properties.

Returned(c) == pc[c] = "done"
Happened(c, e) == \E i \in 1..Len(trace[c]) : trace[c][i] = e
Count(c, e) == Cardinality({i \in 1..Len(trace[c]) : trace[c][i] = e})

\* The bytes the caller supplied: the header, the buffer, or the file's contents.
InputBytes(c) ==
    IF h[c].some THEN h[c].val
    ELSE IF IsBytesLike(file[c]) THEN file[c].bytes
    ELSE FS(StrOf(file[c])).content

\* What the decoder answered for the bytes of call c.
Answered(c, out) ==
    /\ Available
    /\ Happened(c, "decode")
    /\ \E r \in pil : r.arg = data[c].val /\ r.out = out
ReportsFormat(c) == \E f \in Formats : Answered(c, f)

Labels == {"jpeg", "png", "gif", "bmp", "tiff"}

\* Byte i of b, counted from 0, or -1 past its end.
Byte(b, i) == IF i < Len(b) THEN b[i + 1] ELSE -1

\* The rule list of the specification, byte by byte.
ListedLabel(b) ==
    IF Byte(b, 0) = 255 /\ Byte(b, 1) = 216 THEN "jpeg"
    ELSE IF /\ Byte(b, 0) = 137 /\ Byte(b, 1) = 80 /\ Byte(b, 2) = 78 /\ Byte(b, 3) = 71
            /\ Byte(b, 4) = 13 /\ Byte(b, 5) = 10 /\ Byte(b, 6) = 26 /\ Byte(b, 7) = 10
         THEN "png"
    ELSE IF /\ Byte(b, 0) = 71 /\ Byte(b, 1) = 73 /\ Byte(b, 2) = 70 /\ Byte(b, 3) = 56
            /\ Byte(b, 4) \in {55, 57} /\ Byte(b, 5) = 97
         THEN "gif"
    ELSE IF Byte(b, 0) = 66 /\ Byte(b, 1) = 77 THEN "bmp"
    ELSE IF Byte(b, 0) = Byte(b, 1) /\ Byte(b, 0) \in {73, 77} THEN "tiff"
    ELSE None

-----------------------------------------------------------------------------
\* C1: what never raises to the caller: whatever the file (path, buffer or
\* None), the header (bytes or None) and the decoder (unavailable, raising,
\* answering), no call ends with an exception, and a call that has returned has
\* returned a format label or None.
C1_NeverRaises ==
    \A c \in Calls :
        /\ pc[c] # "raised"
        /\ Returned(c) => result[c] \in Labels \cup {Lower(f) : f \in Formats} \cup {None}

\* A call whose open() raised, with the decoder available, and that returned None.
C1_Witness ==
    /\ Returned(1) /\ result[1] = None
    /\ trace[1] = <<"open">>
    /\ file[1] = PathArg("missing")
    /\ Available

-----------------------------------------------------------------------------
\* C2: with a header supplied (the empty header too) the file argument is
\* never opened or read, the header itself is what is examined, and the result
\* is decided by the header and the decoder alone, whatever the file is.
C2_ResultOfHeader(c) ==
    IF ReportsFormat(c)
    THEN Lower(CHOOSE f \in Formats : Answered(c, f))
    ELSE ListedLabel(h[c].val)

C2_HeaderNoFileAccess ==
    \A c \in Calls :
        h[c].some =>
            /\ ~Happened(c, "open") /\ ~Happened(c, "read")
            /\ handles[c] = 0
            /\ data[c] = h[c]
            /\ Returned(c) => result[c] = C2_ResultOfHeader(c)

\* what("missing", PNG header) has returned "png" by the signature rules.
C2_Witness ==
    /\ Returned(1) /\ result[1] = "png"
    /\ file[1] = PathArg("missing")
    /\ h[1].some /\ IsPng(h[1].val)
    /\ Happened(1, "match")

-----------------------------------------------------------------------------
\* C3 (as stated): in every call, however the bytes are obtained, the decoder
\* and the signature matching are given at most the first 32 bytes, and two
\* calls whose inputs agree on their first 32 bytes return the same result.
C3_Original ==
    \A c \in Calls :
        /\ (Happened(c, "decode") \/ Happened(c, "match")) => Len(data[c].val) <= READ_LEN
        /\ \A d \in Calls :
              ( /\ Returned(c) /\ Returned(d)
                /\ data[c].some /\ data[d].some
                /\ Take(InputBytes(c), READ_LEN) = Take(InputBytes(d), READ_LEN) )
              => result[c] = result[d]

\* C3 (amended): when the header is absent, the decoder and the signature
\* matching are given exactly the first 32 bytes (or fewer) of the buffer or of
\* the file, so two such calls whose inputs agree on their first 32 bytes
\* return the same result; a supplied header is handed over whole.
C3_PrefixWhenHeaderAbsent ==
    \A c \in Calls :
        /\ (~h[c].some /\ data[c].some) =>
              /\ Len(data[c].val) <= READ_LEN
              /\ data[c].val = Take(InputBytes(c), READ_LEN)
        /\ (h[c].some /\ pc[c] # "idle") => data[c].val = InputBytes(c)
        /\ \A d \in Calls :
              ( /\ Returned(c) /\ Returned(d)
                /\ ~h[c].some /\ ~h[d].some
                /\ data[c].some /\ data[d].some
                /\ Take(InputBytes(c), READ_LEN) = Take(InputBytes(d), READ_LEN) )
              => result[c] = result[d]

\* Two header-less calls on inputs longer than 32 bytes that differ only in
\* byte 32 have both returned, after the decoder answered.
C3_Witness ==
    /\ Returned(1) /\ Returned(2)
    /\ ~h[1].some /\ ~h[2].some
    /\ Len(InputBytes(1)) > READ_LEN
    /\ InputBytes(1) # InputBytes(2)
    /\ Take(InputBytes(1), READ_LEN) = Take(InputBytes(2), READ_LEN)
    /\ Happened(1, "decode") /\ Happened(2, "decode")
    /\ result[1] = "webp"

-----------------------------------------------------------------------------
\* C4: when the decoder is unavailable, raises or reports no format, the
\* result for a non-empty buffer is the label of the first listed rule that
\* matches it (FF D8, the PNG signature, GIF87a/GIF89a, BM, II/MM), None when
\* none does.
C4_DecoderSilent(c) ==
    \/ ~Available
    \/ Answered(c, "raise")
    \/ Answered(c, "nofmt")

C4_SignatureFallback ==
    \A c \in Calls :
        (Returned(c) /\ data[c].some /\ InputBytes(c) # <<>> /\ C4_DecoderSilent(c)) =>
            /\ result[c] = ListedLabel(InputBytes(c))
            /\ result[c] \in Labels \cup {None}

\* A GIF87a buffer, the decoder raising, "gif" returned.
C4_Witness ==
    /\ Returned(1) /\ result[1] = "gif"
    /\ Answered(1, "raise")
    /\ Take(InputBytes(1), 6) = GIF87a
    /\ ~h[1].some

-----------------------------------------------------------------------------
\* C5 (as stated): a buffer that starts with the PNG signature gives "png",
\* with GIF87a or GIF89a "gif", with BM "bmp", with II or MM "tiff", whether
\* or not the decoder is available.
C5_SignedLabel(b) ==
    IF StartsWith(b, PNG_SIG) THEN "png"
    ELSE IF Take(b, 6) \in {GIF87a, GIF89a} THEN "gif"
    ELSE IF StartsWith(b, BM) THEN "bmp"
    ELSE IF StartsWith(b, II) \/ StartsWith(b, MM) THEN "tiff"
    ELSE None

C5_Original ==
    \A c \in Calls :
        (Returned(c) /\ data[c].some /\ C5_SignedLabel(InputBytes(c)) # None) =>
            result[c] = C5_SignedLabel(InputBytes(c))

\* C5 (amended): the same, unless the decoder is available and reports a
\* format for the bytes; then the result is the decoder's format, lowercased,
\* which is the signature's label only when the decoder agrees.
C5_SignedUnlessDecoderReports ==
    \A c \in Calls :
        (Returned(c) /\ data[c].some /\ C5_SignedLabel(InputBytes(c)) # None) =>
            /\ ~ReportsFormat(c) => result[c] = C5_SignedLabel(InputBytes(c))
            /\ Answered(c, "PNG") => result[c] = "png"
            /\ Answered(c, "WEBP") => result[c] = "webp"

\* A buffer starting with BM, the decoder available and reporting nothing.
C5_Witness ==
    /\ Returned(1) /\ result[1] = "bmp"
    /\ Answered(1, "nofmt")
    /\ StartsWith(InputBytes(1), BM)

-----------------------------------------------------------------------------
\* C6 (as stated): None for the empty buffer (as file or as header) and for a
\* path whose open or read fails, in every decoder state; after a failed open
\* or read neither the decoder nor the signature matching is reached.
C6_IOFailed(c) ==
    /\ ~h[c].some /\ ~IsBytesLike(file[c]) /\ pc[c] # "idle"
    /\ ~FS(StrOf(file[c])).exists \/ ~FS(StrOf(file[c])).readable

C6_EmptyInput(c) ==
    /\ pc[c] # "idle"
    /\ h[c].some \/ IsBytesLike(file[c])
    /\ InputBytes(c) = <<>>

-----------------------------------------------------------------------------
\* C7: with a path and no header, the file is opened at most once, at most 32
\* bytes are read, and no handle is open once the with block is left: not when
\* the decoder or the signature matching runs, and not when the call returns,
\* whether by a format, by no match, by a failed read or by a failed decode.
C7_HandleReleased ==
    \A c \in Calls :
        /\ Count(c, "open") <= 1 /\ Count(c, "read") <= 1
        /\ handles[c] \in {0, 1}
        /\ handles[c] = 1 <=> pc[c] \in {"L46", "exit45"}
        /\ (pc[c] \in {"done", "raised"}) => handles[c] = 0
        /\ (~h[c].some /\ ~IsBytesLike(file[c]) /\ data[c].some) => Len(data[c].val) <= READ_LEN

\* The read failed, the handle was closed, the call returned None.
C7_Witness ==
    /\ Returned(1) /\ result[1] = None
    /\ trace[1] = <<"open", "read", "close">>
    /\ handles[1] = 0
    /\ file[1] = PathArg("bad")

-----------------------------------------------------------------------------
\* C8: calls share no mutable state.  A call run alone returns WhatAlone of
\* its arguments; every call of an interleaving returns the same, and a step of
\* one call changes nothing another call reads: not the other calls' locals and
\* not the module's Image and BytesIO.  (pil is the decoder's fixed answer
\* table, filled in as it is discovered; it is not state of the program.)
C8_Obtained(f, hh) ==
    IF hh.some THEN hh
    ELSE IF IsBytesLike(f) THEN Some(Take(f.bytes, READ_LEN))
    ELSE IF FS(StrOf(f)).exists /\ FS(StrOf(f)).readable
         THEN Some(Take(FS(StrOf(f)).content, READ_LEN))
    ELSE NoneBytes

C8_WhatAlone(f, hh) ==
    LET d == C8_Obtained(f, hh)
        fmts == {r \in pil : r.arg = d.val /\ r.out \in Formats}
    IN  IF ~d.some THEN None
        ELSE IF Available /\ fmts # {} THEN Lower((CHOOSE r \in fmts : TRUE).out)
        ELSE ListedLabel(d.val)

C8_SameAsAlone ==
    \A c \in Calls : Returned(c) => result[c] = C8_WhatAlone(file[c], h[c])

C8_Frame ==
    /\ Image' = Image /\ BytesIO' = BytesIO
    /\ \A c, d \in Calls :
          (pc'[c] # pc[c] /\ d # c) =>
              /\ pc'[d] = pc[d] /\ file'[d] = file[d] /\ h'[d] = h[d]
              /\ data'[d] = data[d] /\ result'[d] = result[d]
              /\ handles'[d] = handles[d] /\ exc'[d] = exc[d] /\ trace'[d] = trace[d]

C8_NoSharedState == []C8_SameAsAlone /\ [][C8_Frame]_vars

\* One call has returned "png" from a file while another still has the same
\* file open: the two calls overlap.
C8_Witness ==
    /\ Returned(1) /\ result[1] = "png" /\ Happened(1, "read")
    /\ pc[2] = "exit45" /\ handles[2] = 1
    /\ file[2] = file[1]

-----------------------------------------------------------------------------
\* C9: when the decoder is available and reports a format for the bytes, the
\* result is that identifier in lower case and the signature rules are not
\* consulted, also when a rule with another label matches the bytes; whenever
\* the decoder is available it is tried before the rules.
C9_DecoderPreferred ==
    \A c \in Calls :
        /\ (Returned(c) /\ Answered(c, "PNG")) => (result[c] = "png" /\ ~Happened(c, "match"))
        /\ (Returned(c) /\ Answered(c, "WEBP")) => (result[c] = "webp" /\ ~Happened(c, "match"))
        /\ (Available /\ Happened(c, "match")) =>
              \E i, j \in 1..Len(trace[c]) :
                  i < j /\ trace[c][i] = "decode" /\ trace[c][j] = "match"
        /\ (Available /\ pc[c] = "L62") => Happened(c, "decode")

\* The bytes start with the PNG signature and the decoder said WEBP.
C9_Witness ==
    /\ Returned(1) /\ result[1] = "webp"
    /\ IsPng(data[1].val)
    /\ ~Happened(1, "match")

-----------------------------------------------------------------------------
\* C10: no byte string matches more than one of the five rules, so the rules
\* give the same label in whatever order they are checked.
Rules == 1..Len(SourceOrder)
Orders == Permutations(Rules)

C10_OrderFree(b) ==
    /\ Cardinality({i \in Rules : RuleMatches(i, b)}) <= 1
    /\ \A o \in Orders : FirstMatch(o, b) = FirstMatch(SourceOrder, b)

C10_RulesDisjoint ==
    \A c \in Calls : pc[c] \in {"L62", "done"} => C10_OrderFree(data[c].val)

\* MM followed by BM: the tiff rule matched bytes that contain another
\* rule's signature further on.
C10_Witness ==
    /\ Returned(1) /\ result[1] = "tiff"
    /\ Happened(1, "match")
    /\ InputBytes(1) = MM \o BM

====
